---- MODULE Spec2Model ----
(***************************************************************************)
(* Staff management page (StaffManagement component): the cached state of  *)
(* the component, the Firestore collections it reads and writes, and the   *)
(* asynchronous invocations of fetchData, handleSubmit and handleDelete    *)
(* that are suspended on a store call or on the confirmation dialog.       *)
(*                                                                         *)
(* Strings are sequences of one-character strings, so that toLowerCase and *)
(* includes are computed and not assumed.  A nullable reference is a       *)
(* sequence of length at most one (<<>> is null).  A JavaScript object is  *)
(* a function from its keys; a key is present iff it is in the DOMAIN.     *)
(***************************************************************************)
EXTENDS Integers, Sequences, FiniteSets, TLC

\* ---------------------------------------------------------------- bounds
\* number of invocations that may be suspended at the same time
MaxInFlight == 2
\* number of user events (and changes of the Departments collection by
\* another writer) in one run
MaxEvents == 3

\* ------------------------------------------------------------- constants
Male == <<"M", "a", "l", "e">>
Female == <<"F", "e", "m", "a", "l", "e">>
Other == <<"O", "t", "h", "e", "r">>
Teacher == <<"T", "e", "a", "c", "h", "e", "r">>
CourseHead == <<"C", "o", "u", "r", "s", "e", " ", "H", "e", "a", "d">>
DepartmentHead == <<"D", "e", "p", "a", "r", "t", "m", "e", "n", "t", " ", "H", "e", "a", "d">>
Registrar == <<"R", "e", "g", "i", "s", "t", "r", "a", "r">>
Admin == <<"A", "d", "m", "i", "n">>

GENDERS == <<Male, Female, Other>>
POSITIONS == <<Teacher, CourseHead, DepartmentHead, Registrar, Admin>>

FormFields == {"firstName", "lastName", "gender", "address", "mobileNumber",
               "position", "department", "course"}

\* useState initial value of formData, also what resetForm stores
EmptyForm == [f \in FormFields |-> <<>>]

\* ------------------------------------------------- contents of the store
D1 == <<"D", "1">>
D2 == <<"D", "2">>
Course1 == <<"C", "1">>
DeptIds == {D1, D2}

\* Courses sub-collection of every department: D1 has one course, D2 none
StoreCourses == [d \in DeptIds |-> IF d = D1 THEN {Course1} ELSE {}]

\* the Staff document that exists when the page is opened
InitialDoc == [firstName |-> <<"A", "b">>, lastName |-> <<"L", "e", "e">>,
               gender |-> Female, address |-> <<"x">>, mobileNumber |-> <<"1">>,
               position |-> Teacher, department |-> D1, course |-> Course1]

\* ------------------------------------------------------- what the user types
\* the text the user has in the four text inputs once they are filled
TypedText == [firstName |-> <<"B">>, lastName |-> <<"L", "e", "e">>,
              address |-> <<"x">>, mobileNumber |-> <<"1">>]
\* the form after the user has filled the inputs that need no loaded data
TypedForm == [f \in FormFields |->
                 CASE f \in DOMAIN TypedText -> TypedText[f]
                   [] f = "gender" -> Male
                   [] f = "position" -> Teacher
                   [] OTHER -> <<>>]
\* the values the user enters or selects after that, per field: the user
\* retypes one text input and uses both of the selects that are filled from
\* loaded data
Typed(field) ==
    CASE field = "firstName" -> {<<>>, TypedText.firstName}
      [] field = "department" -> {<<>>, D1, D2}
      [] field = "course" -> {<<>>, Course1}
      [] OTHER -> {}
Queries == {<<>>, <<"a", "B">>, <<"2">>}

VARIABLES
    staff,          \* useState: cached staff list
    formData,       \* useState: FormBuffer
    departments,    \* useState: cached department list
    allCourses,     \* useState: department id -> cached course list
    selectedStaff,  \* useState: EditingTarget (<<>> is null)
    searchQuery,    \* useState: search query
    memoDeps,       \* useMemo: dependency values of the last computation
    filteredStaff,  \* useMemo: the displayed list
    staffDocs,      \* store: Staff collection, document id -> field map
    nextId,         \* store: the next identifier addDoc assigns
    storeDepts,     \* store: ids of the Departments collection
    procs,          \* suspended invocations, by slot
    fx,             \* the last step's notifications and the calls of resetForm
                    \* and fetchData around them, in order
    nEvents         \* user events so far

vars == <<staff, formData, departments, allCourses, selectedStaff, searchQuery,
          memoDeps, filteredStaff, staffDocs, nextId, storeDepts, procs, fx,
          nEvents>>


\* ------------------------------------------------------------- strings
UpperCase == <<"A", "B", "C", "D", "E", "F", "G", "H", "I", "J", "K", "L", "M",
               "N", "O", "P", "Q", "R", "S", "T", "U", "V", "W", "X", "Y", "Z">>
LowerCase == <<"a", "b", "c", "d", "e", "f", "g", "h", "i", "j", "k", "l", "m",
               "n", "o", "p", "q", "r", "s", "t", "u", "v", "w", "x", "y", "z">>

LowerChar(c) ==
    IF \E i \in 1..Len(UpperCase) : UpperCase[i] = c
    THEN LowerCase[CHOOSE i \in 1..Len(UpperCase) : UpperCase[i] = c]
    ELSE c

\* String.prototype.toLowerCase
toLowerCase(s) == [i \in 1..Len(s) |-> LowerChar(s[i])]

\* String.prototype.includes
includes(s, q) ==
    \E i \in 0..(Len(s) - Len(q)) : SubSeq(s, i + 1, i + Len(q)) = q

\* ------------------------------------------------------------ sequences
RECURSIVE SortedSeq(_)
\* the elements of a finite set of numbers in ascending order
SortedSeq(S) ==
    IF S = {} THEN <<>>
    ELSE LET m == CHOOSE x \in S : \A y \in S : x <= y
         IN <<m>> \o SortedSeq(S \ {m})

Range(s) == {s[i] : i \in 1..Len(s)}

\* the query is compared as typed
FieldMatchesRawQuery(field, q) == includes(toLowerCase(field), q)

\* line 99: field => field.toLowerCase().includes(searchQuery.toLowerCase())
FieldMatches(field, q) == includes(toLowerCase(field), toLowerCase(q))

\* lines 98-99: the predicate of the filter, [...].some(...) over five fields
StaffMatches(r, q) ==
    \E f \in {"firstName", "lastName", "position", "department", "course"} :
        FieldMatches(r[f], q)

RECURSIVE SelectSeqBy(_, _)
\* Array.prototype.filter with the predicate of filteredStaff
SelectSeqBy(s, q) ==
    IF s = <<>> THEN <<>>
    ELSE (IF StaffMatches(s[1], q) THEN <<s[1]>> ELSE <<>>) \o SelectSeqBy(Tail(s), q)

\* the callback of the useMemo that computes filteredStaff
FilterStaff(list, q) == SelectSeqBy(list, q)

\* ------------------------------------------------------------ the store
\* doc => ({ id: doc.id, ...doc.data() }): a field of the data overrides
\* the key written before the spread
DocToRecord(docId, data) ==
    [f \in {"id"} \cup DOMAIN data |-> IF f \in DOMAIN data THEN data[f] ELSE docId]

\* the records take their position in the result as id
StaffSnapshotByPosition ==
    LET ids == SortedSeq(DOMAIN staffDocs)
    IN [i \in 1..Len(ids) |-> DocToRecord(i, staffDocs[ids[i]])]

\* getDocs(collection(db, 'Staff')) mapped by DocToRecord, in document order
StaffSnapshot ==
    LET ids == SortedSeq(DOMAIN staffDocs)
    IN [i \in 1..Len(ids) |-> DocToRecord(ids[i], staffDocs[ids[i]])]

\* getDocs(collection(db, 'Departments')) mapped to records, in document order
DeptSnapshot ==
    (IF D1 \in storeDepts THEN <<[id |-> D1]>> ELSE <<>>)
    \o (IF D2 \in storeDepts THEN <<[id |-> D2]>> ELSE <<>>)

\* getDocs(collection(db, `Departments/${id}/Courses`)) mapped to records
CourseSnapshot(d) ==
    IF Course1 \in StoreCourses[d] THEN <<[id |-> Course1]>> ELSE <<>>

\* the document's fields win over the listed ones
MergeFieldsKeepOld(old, data) ==
    [f \in DOMAIN old \cup DOMAIN data |-> IF f \in DOMAIN old THEN old[f] ELSE data[f]]

\* updateDoc(ref, data): the listed fields replace the document's fields
MergeFields(old, data) ==
    [f \in DOMAIN old \cup DOMAIN data |-> IF f \in DOMAIN data THEN data[f] ELSE old[f]]

\* ------------------------------------------------------------- processes
Null == <<>>
Some(x) == <<x>>

\* what started an invocation of fetchData (history, not read by the code):
\* the mutation, its document id and the size of the Staff collection right
\* after it
NoCause == [kind |-> "none", id |-> 0, stored |-> 0]
Mount == [NoCause EXCEPT !.kind = "mount"]

\* one invocation: pc is the await it is suspended on; sel, form and target
\* are the values its closure holds; resp is the result of the Staff read it
\* waits for once the store has evaluated it; depts, k and cbd are the locals of
\* fetchData.  cause, dirty and raced are history: dirty says that this
\* fetchData has changed the value of a cached piece, raced that another
\* write reached the store after the one that started this fetchData and
\* before its Staff read was evaluated.
FreeProc == [pc |-> "free", sel |-> Null, form |-> Null, target |-> Null,
             resp |-> Null, depts |-> <<>>, k |-> 0, cbd |-> <<>>,
             cause |-> NoCause, dirty |-> FALSE, raced |-> FALSE]

Slots == 1..MaxInFlight
IsFree(p) == procs[p].pc = "free"
FreeSlot == CHOOSE p \in Slots : IsFree(p) /\ \A r \in Slots : IsFree(r) => p <= r
HasFreeSlot == \E p \in Slots : IsFree(p)

\* a SweetAlert2 confirmation is modal: no page event while it is open
DialogOpen == \E p \in Slots : procs[p].pc = "confirm"
UserCanAct == ~DialogOpen /\ nEvents < MaxEvents

ReadPcs == {"staff", "depts", "courses"}

\* fetchData up to its first await: getDocs(collection(db, 'Staff')) is issued
StartFetch(why) ==
    [FreeProc EXCEPT !.pc = "staff", !.cause = why]

\* history: a write has reached the store; every fetchData whose Staff read
\* is not evaluated yet will see it
MarkRaced(ps) ==
    [q \in Slots |-> IF ps[q].pc = "staff" /\ ps[q].resp = Null
                     THEN [ps[q] EXCEPT !.raced = TRUE] ELSE ps[q]]

\* --------------------------------------------------------------- render
\* the useMemo of filteredStaff, run by the render that follows every handler
Render ==
    /\ memoDeps' = <<staff', searchQuery'>>
    /\ filteredStaff' = IF memoDeps # <<staff', searchQuery'>>
                        THEN FilterStaff(staff', searchQuery')
                        ELSE filteredStaff

\* ----------------------------------------------------------------- Init
\* after the first render and the mount effect: fetchData is suspended on
\* its first read.  The user may already have filled the inputs that do not
\* depend on loaded data (six onChange events, enabled from the first render).
Init ==
    /\ staff = <<>>
    /\ formData \in {EmptyForm, TypedForm}
    /\ departments = <<>>
    /\ allCourses = <<>>
    /\ selectedStaff = Null
    /\ searchQuery = <<>>
    /\ memoDeps = <<<<>>, <<>>>>
    /\ filteredStaff = <<>>
    /\ staffDocs = (1 :> InitialDoc)
    /\ nextId = 2
    /\ storeDepts = DeptIds
    /\ procs = [p \in Slots |-> IF p = 1 THEN StartFetch(Mount) ELSE FreeProc]
    /\ fx = <<>>
    /\ nEvents = 0

\* ------------------------------------------------------------ fetchData
\* the store evaluates the Staff read a suspended fetchData is waiting for;
\* the result reaches the page later, and writes of the page may resolve in
\* between.  Departments and Courses are written by others only, at any
\* time, so those reads are evaluated when they resolve.
ServeRead(p) ==
    /\ procs[p].pc = "staff"
    /\ procs[p].resp = Null
    /\ procs' = [procs EXCEPT ![p].resp = Some(StaffSnapshot)]
    /\ fx' = <<>>
    /\ UNCHANGED <<staff, formData, departments, allCourses, selectedStaff,
                   searchQuery, staffDocs, nextId, storeDepts, nEvents>>
    /\ Render

\* lines 23-26: the Staff read resolves, setStaff, the Departments read is issued
FetchStaffDone(p) ==
    /\ procs[p].pc = "staff"
    /\ procs[p].resp # Null
    /\ staff' = procs[p].resp[1]
    /\ procs' = [procs EXCEPT ![p].pc = "depts", ![p].resp = Null,
                              ![p].dirty = (staff' # staff)]
    /\ fx' = <<>>
    /\ UNCHANGED <<formData, departments, allCourses, selectedStaff,
                   searchQuery, staffDocs, nextId, storeDepts, nEvents>>
    /\ Render

\* lines 26-32 (and 35 when there is no department): the Departments read
\* resolves, setDepartments, the first Courses read is issued
FetchDeptsDone(p) ==
    /\ procs[p].pc = "depts"
    /\ LET ds == DeptSnapshot
       IN /\ departments' = ds
          /\ IF ds = <<>>
             THEN /\ allCourses' = <<>>
                  /\ procs' = [procs EXCEPT ![p] = FreeProc]
                  /\ fx' = <<>>
             ELSE /\ allCourses' = allCourses
                  /\ procs' = [procs EXCEPT ![p].pc = "courses",
                                            ![p].depts = ds, ![p].k = 1,
                                            ![p].cbd = <<>>,
                                            ![p].dirty = (@ \/ ds # departments)]
                  /\ fx' = <<>>
    /\ UNCHANGED <<staff, formData, selectedStaff, searchQuery, staffDocs,
                   nextId, storeDepts, nEvents>>
    /\ Render

\* coursesByDept[department.id] = ...
PutCourses(cbd, d, cs) ==
    [x \in DOMAIN cbd \cup {d} |-> IF x = d THEN cs ELSE cbd[x]]

\* lines 32-35: a Courses read resolves; the next one is issued, or after the
\* last department setAllCourses
FetchCoursesDone(p) ==
    /\ procs[p].pc = "courses"
    /\ LET pr == procs[p]
           d == pr.depts[pr.k].id
           cbd == PutCourses(pr.cbd, d, CourseSnapshot(d))
       IN IF pr.k = Len(pr.depts)
          THEN /\ allCourses' = cbd
               /\ procs' = [procs EXCEPT ![p] = FreeProc]
               /\ fx' = <<>>
          ELSE /\ allCourses' = allCourses
               /\ procs' = [procs EXCEPT ![p].k = pr.k + 1, ![p].cbd = cbd]
               /\ fx' = <<>>
    /\ UNCHANGED <<staff, formData, departments, selectedStaff, searchQuery,
                   staffDocs, nextId, storeDepts, nEvents>>
    /\ Render

\* lines 36-39: a read rejects; the catch shows the error and fetchData returns
\* the catch starts the load again
FetchFailRetries(p) ==
    /\ procs[p].pc \in ReadPcs
    /\ procs' = [procs EXCEPT ![p] = StartFetch(procs[p].cause)]
    /\ fx' = <<"error:fetch">>
    /\ UNCHANGED <<staff, formData, departments, allCourses, selectedStaff,
                   searchQuery, staffDocs, nextId, storeDepts, nEvents>>
    /\ Render

FetchFail(p) ==
    /\ procs[p].pc \in ReadPcs
    /\ procs' = [procs EXCEPT ![p] = FreeProc]
    /\ fx' = <<"error:fetch">>
    /\ UNCHANGED <<staff, formData, departments, allCourses, selectedStaff,
                   searchQuery, staffDocs, nextId, storeDepts, nEvents>>
    /\ Render

\* ------------------------------------------------------------- the form
\* the first text input is not required
RequiredFieldsButFirstName == {"lastName", "address", "mobileNumber",
                               "gender", "position", "department"}

\* lines 169-191: the inputs that carry `required`
RequiredFields == {"firstName", "lastName", "address", "mobileNumber",
                   "gender", "position", "department"}
\* the `required` attribute of the seven inputs: the browser dispatches the
\* submit event only when every one of them has a value
FormValid == \A f \in RequiredFields : formData[f] # <<>>

\* the options of the course select for the selected department
\* the course select lists the courses of every cached department
CourseOptionsOfAnyDepartment ==
    UNION {{allCourses[d][i].id : i \in 1..Len(allCourses[d])} : d \in DOMAIN allCourses}

CourseOptions ==
    LET cs == IF formData.department \in DOMAIN allCourses
              THEN allCourses[formData.department] ELSE <<>>
    IN {cs[i].id : i \in 1..Len(cs)}

\* line 192: disabled={!formData.department}
CourseDisabled == formData.department = <<>>

\* the values the input of a field lets the user choose
Choices(field) ==
    CASE field \in {"firstName", "lastName", "address", "mobileNumber"} ->
              {<<>>, TypedText[field]}
      [] field = "gender" -> {<<>>} \cup Range(GENDERS)
      [] field = "position" -> {<<>>} \cup Range(POSITIONS)
      [] field = "department" -> {<<>>} \cup {departments[i].id : i \in 1..Len(departments)}
      [] field = "course" -> IF CourseDisabled THEN {}
                             ELSE {<<>>} \cup CourseOptions

\* the value the control of a field displays: a text input shows the state; a
\* select whose value matches none of its options shows its first option, the
\* placeholder with the empty value
Shown(field) ==
    IF field \in {"gender", "position", "department", "course"}
       /\ formData[field] \notin Choices(field)
    THEN <<>>
    ELSE formData[field]

\* line 46: setFormData(prev => ({ ...prev, [field]: value })); the change
\* event fires when the user picks a value other than the displayed one
HandleChange(field, value) ==
    /\ UserCanAct
    /\ value \in Choices(field)
    /\ value # Shown(field)
    /\ formData' = [f \in DOMAIN formData \cup {field} |->
                        IF f = field THEN value ELSE formData[f]]
    /\ fx' = <<>>
    /\ nEvents' = nEvents + 1
    /\ UNCHANGED <<staff, departments, allCourses, selectedStaff, searchQuery,
                   staffDocs, nextId, storeDepts, procs>>
    /\ Render

\* lines 66-71
\* an edit in progress keeps its unsaved form values
HandleEditKeepsForm(row) ==
    /\ UserCanAct
    /\ formData' = IF selectedStaff = Null THEN row ELSE formData
    /\ selectedStaff' = Some(row)
    /\ fx' = <<>>
    /\ nEvents' = nEvents + 1
    /\ UNCHANGED <<staff, departments, allCourses, searchQuery, staffDocs,
                   nextId, storeDepts, procs>>
    /\ Render

HandleEdit(row) ==
    /\ UserCanAct
    /\ formData' = row
    /\ selectedStaff' = Some(row)
    /\ fx' = <<>>
    /\ nEvents' = nEvents + 1
    /\ UNCHANGED <<staff, departments, allCourses, searchQuery, staffDocs,
                   nextId, storeDepts, procs>>
    /\ Render

\* the reset leaves selectedStaff as it is
ResetFormKeepsTarget ==
    /\ UserCanAct
    /\ formData' = EmptyForm
    /\ fx' = <<"resetForm">>
    /\ nEvents' = nEvents + 1
    /\ UNCHANGED <<staff, departments, allCourses, selectedStaff, searchQuery,
                   staffDocs, nextId, storeDepts, procs>>
    /\ Render

\* lines 93-96, from the Reset button
ResetForm ==
    /\ UserCanAct
    /\ formData' = EmptyForm
    /\ selectedStaff' = Null
    /\ fx' = <<"resetForm">>
    /\ nEvents' = nEvents + 1
    /\ UNCHANGED <<staff, departments, allCourses, searchQuery, staffDocs,
                   nextId, storeDepts, procs>>
    /\ Render

\* line 156: onChange of the search box
SetSearchQuery(q) ==
    /\ UserCanAct
    /\ q # searchQuery
    /\ searchQuery' = q
    /\ fx' = <<>>
    /\ nEvents' = nEvents + 1
    /\ UNCHANGED <<staff, formData, departments, allCourses, selectedStaff,
                   staffDocs, nextId, storeDepts, procs>>
    /\ Render

\* --------------------------------------------------------- handleSubmit
\* lines 48-56: up to the await of updateDoc or addDoc; selectedStaff and
\* formData are the values of the render whose handler this is
\* the submit handler returns while a write of an earlier submit is outstanding
HandleSubmitSerialized ==
    /\ UserCanAct
    /\ FormValid
    /\ HasFreeSlot
    /\ \A p \in Slots : procs[p].pc # "save"
    /\ procs' = [procs EXCEPT ![FreeSlot] =
                    [FreeProc EXCEPT !.pc = "save", !.sel = selectedStaff,
                                     !.form = Some(formData)]]
    /\ fx' = <<>>
    /\ nEvents' = nEvents + 1
    /\ UNCHANGED <<staff, formData, departments, allCourses, selectedStaff,
                   searchQuery, staffDocs, nextId, storeDepts>>
    /\ Render

HandleSubmit ==
    /\ UserCanAct
    /\ FormValid
    /\ HasFreeSlot
    /\ procs' = [procs EXCEPT ![FreeSlot] =
                    [FreeProc EXCEPT !.pc = "save", !.sel = selectedStaff,
                                     !.form = Some(formData)]]
    /\ fx' = <<>>
    /\ nEvents' = nEvents + 1
    /\ UNCHANGED <<staff, formData, departments, allCourses, selectedStaff,
                   searchQuery, staffDocs, nextId, storeDepts>>
    /\ Render

\* the text follows the selectedStaff of the latest render
SavedMessageOfState(sel) ==
    IF selectedStaff # Null THEN "success:updated" ELSE "success:added"

\* line 57: the text of the success notification
SavedMessage(sel) == IF sel # Null THEN "success:updated" ELSE "success:added"

\* the reset is skipped for a form or a target changed since the submit
SaveDoneResetsOwnSession(p) ==
    /\ procs[p].pc = "save"
    /\ LET pr == procs[p]
       IN IF pr.sel # Null
          THEN /\ pr.sel[1].id \in DOMAIN staffDocs
               /\ staffDocs' = [staffDocs EXCEPT ![pr.sel[1].id] = MergeFields(@, pr.form[1])]
               /\ nextId' = nextId
               /\ procs' = [MarkRaced(procs) EXCEPT ![p] =
                               StartFetch([kind |-> "update", id |-> pr.sel[1].id,
                                           stored |-> Cardinality(DOMAIN staffDocs')])]
          ELSE /\ staffDocs' = [i \in DOMAIN staffDocs \cup {nextId} |->
                                    IF i = nextId THEN pr.form[1] ELSE staffDocs[i]]
               /\ nextId' = nextId + 1
               /\ procs' = [MarkRaced(procs) EXCEPT ![p] =
                               StartFetch([kind |-> "add", id |-> nextId,
                                           stored |-> Cardinality(DOMAIN staffDocs')])]
    /\ fx' = <<SavedMessage(procs[p].sel), "resetForm", "fetchData">>
    /\ formData' = IF formData = procs[p].form[1] THEN EmptyForm ELSE formData
    /\ selectedStaff' = IF selectedStaff = procs[p].sel THEN Null ELSE selectedStaff
    /\ UNCHANGED <<staff, departments, allCourses, searchQuery, storeDepts, nEvents>>
    /\ Render

\* lines 57-59: the store call resolved; the store has applied the write
SaveDone(p) ==
    /\ procs[p].pc = "save"
    /\ LET pr == procs[p]
       IN IF pr.sel # Null
          THEN /\ pr.sel[1].id \in DOMAIN staffDocs
               /\ staffDocs' = [staffDocs EXCEPT ![pr.sel[1].id] = MergeFields(@, pr.form[1])]
               /\ nextId' = nextId
               /\ procs' = [MarkRaced(procs) EXCEPT ![p] =
                               StartFetch([kind |-> "update", id |-> pr.sel[1].id,
                                           stored |-> Cardinality(DOMAIN staffDocs')])]
          ELSE /\ staffDocs' = [i \in DOMAIN staffDocs \cup {nextId} |->
                                    IF i = nextId THEN pr.form[1] ELSE staffDocs[i]]
               /\ nextId' = nextId + 1
               /\ procs' = [MarkRaced(procs) EXCEPT ![p] =
                               StartFetch([kind |-> "add", id |-> nextId,
                                           stored |-> Cardinality(DOMAIN staffDocs')])]
    /\ fx' = <<SavedMessage(procs[p].sel), "resetForm", "fetchData">>
    /\ formData' = EmptyForm
    /\ selectedStaff' = Null
    /\ UNCHANGED <<staff, departments, allCourses, searchQuery, storeDepts, nEvents>>
    /\ Render

\* the catch also resets the form
SaveFailResets(p) ==
    /\ procs[p].pc = "save"
    /\ procs' = [procs EXCEPT ![p] = FreeProc]
    /\ fx' = <<"error:save", "resetForm">>
    /\ formData' = EmptyForm
    /\ selectedStaff' = Null
    /\ UNCHANGED <<staff, departments, allCourses, searchQuery, staffDocs,
                   nextId, storeDepts, nEvents>>
    /\ Render

\* lines 60-63: the store call rejected
SaveFail(p) ==
    /\ procs[p].pc = "save"
    /\ procs' = [procs EXCEPT ![p] = FreeProc]
    /\ fx' = <<"error:save">>
    /\ UNCHANGED <<staff, formData, departments, allCourses, selectedStaff,
                   searchQuery, staffDocs, nextId, storeDepts, nEvents>>
    /\ Render

\* --------------------------------------------------------- handleDelete
\* lines 73-80: the confirmation dialog is opened
HandleDelete(row) ==
    /\ UserCanAct
    /\ HasFreeSlot
    /\ procs' = [procs EXCEPT ![FreeSlot] =
                    [FreeProc EXCEPT !.pc = "confirm", !.target = Some(row)]]
    /\ fx' = <<>>
    /\ nEvents' = nEvents + 1
    /\ UNCHANGED <<staff, formData, departments, allCourses, selectedStaff,
                   searchQuery, staffDocs, nextId, storeDepts>>
    /\ Render

\* lines 81-83: the dialog resolves with isConfirmed, deleteDoc is issued
ConfirmYes(p) ==
    /\ procs[p].pc = "confirm"
    /\ procs' = [procs EXCEPT ![p].pc = "deleteDoc"]
    /\ fx' = <<>>
    /\ UNCHANGED <<staff, formData, departments, allCourses, selectedStaff,
                   searchQuery, staffDocs, nextId, storeDepts, nEvents>>
    /\ Render

\* line 81: the dialog resolves without isConfirmed
ConfirmNo(p) ==
    /\ procs[p].pc = "confirm"
    /\ procs' = [procs EXCEPT ![p] = FreeProc]
    /\ fx' = <<>>
    /\ UNCHANGED <<staff, formData, departments, allCourses, selectedStaff,
                   searchQuery, staffDocs, nextId, storeDepts, nEvents>>
    /\ Render

\* deleteDoc addressed another path: the Staff document stays
DeleteDoneKeepsDoc(p) ==
    /\ procs[p].pc = "deleteDoc"
    /\ procs' = [MarkRaced(procs) EXCEPT ![p] =
                    StartFetch([kind |-> "delete", id |-> procs[p].target[1].id,
                                stored |-> Cardinality(DOMAIN staffDocs)])]
    /\ fx' = <<"success:deleted", "fetchData">>
    /\ UNCHANGED <<staff, formData, departments, allCourses, selectedStaff,
                   searchQuery, staffDocs, nextId, storeDepts, nEvents>>
    /\ Render

\* lines 83-85: deleteDoc resolved; the document is gone from the store
DeleteDone(p) ==
    /\ procs[p].pc = "deleteDoc"
    /\ LET id == procs[p].target[1].id
       IN /\ staffDocs' = [i \in DOMAIN staffDocs \ {id} |-> staffDocs[i]]
          /\ procs' = [MarkRaced(procs) EXCEPT ![p] =
                          StartFetch([kind |-> "delete", id |-> id,
                                      stored |-> Cardinality(DOMAIN staffDocs')])]
    /\ fx' = <<"success:deleted", "fetchData">>
    /\ UNCHANGED <<staff, formData, departments, allCourses, selectedStaff,
                   searchQuery, nextId, storeDepts, nEvents>>
    /\ Render

\* the reload runs after the try, also when deleteDoc rejected
DeleteFailReloads(p) ==
    /\ procs[p].pc = "deleteDoc"
    /\ procs' = [procs EXCEPT ![p] =
                    StartFetch([kind |-> "delete", id |-> procs[p].target[1].id,
                                stored |-> Cardinality(DOMAIN staffDocs)])]
    /\ fx' = <<"error:delete", "fetchData">>
    /\ UNCHANGED <<staff, formData, departments, allCourses, selectedStaff,
                   searchQuery, staffDocs, nextId, storeDepts, nEvents>>
    /\ Render

\* lines 86-89: deleteDoc rejected
DeleteFail(p) ==
    /\ procs[p].pc = "deleteDoc"
    /\ procs' = [procs EXCEPT ![p] = FreeProc]
    /\ fx' = <<"error:delete">>
    /\ UNCHANGED <<staff, formData, departments, allCourses, selectedStaff,
                   searchQuery, staffDocs, nextId, storeDepts, nEvents>>
    /\ Render

\* ---------------------------------------------------------- environment
\* another writer adds or removes the department D1
DepartmentsChange ==
    /\ nEvents < MaxEvents
    /\ storeDepts' = IF D1 \in storeDepts THEN storeDepts \ {D1} ELSE storeDepts \cup {D1}
    /\ fx' = <<>>
    /\ nEvents' = nEvents + 1
    /\ UNCHANGED <<staff, formData, departments, allCourses, selectedStaff,
                   searchQuery, staffDocs, nextId, procs>>
    /\ Render

\* ----------------------------------------------------------------- Next
Next ==
    \/ \E p \in Slots : ServeRead(p)
    \/ \E p \in Slots : FetchStaffDone(p)
    \/ \E p \in Slots : FetchDeptsDone(p)
    \/ \E p \in Slots : FetchCoursesDone(p)
    \/ \E p \in Slots : FetchFail(p)
    \/ \E f \in FormFields : \E v \in Typed(f) : HandleChange(f, v)
    \/ \E i \in 1..Len(filteredStaff) : HandleEdit(filteredStaff[i])
    \/ ResetForm
    \/ \E q \in Queries : SetSearchQuery(q)
    \/ HandleSubmit
    \/ \E p \in Slots : SaveDone(p)
    \/ \E p \in Slots : SaveFail(p)
    \/ \E i \in 1..Len(filteredStaff) : HandleDelete(filteredStaff[i])
    \/ \E p \in Slots : ConfirmYes(p)
    \/ \E p \in Slots : ConfirmNo(p)
    \/ \E p \in Slots : DeleteDone(p)
    \/ \E p \in Slots : DeleteFail(p)
    \/ DepartmentsChange

Spec == Init /\ [][Next]_vars

\* ================================================================ claims
\* ids of the records of a cached list
Ids(list) == {list[i].id : i \in 1..Len(list)}

\* the invocations of fetchData a step starts
LoadsStarted == {q \in Slots : procs'[q].pc = "staff" /\ procs[q].pc # "staff"}
\* the invocations for which a step issues a store call
CallsIssued == {q \in Slots : /\ procs'[q].pc \in {"save", "deleteDoc"} \cup ReadPcs
                              /\ \/ procs[q].pc # procs'[q].pc
                                 \/ procs[q].k # procs'[q].k}
\* the notifications among the effects e of a step
NoticesOf(e) == SelectSeq(e, LAMBDA x : x \in {"success:added", "success:updated",
                                                "success:deleted", "error:save",
                                                "error:delete", "error:fetch"})

\* C1: when a read of one fetchData invocation fails, that invocation has
\* changed the value of none of staff, departments and allCourses.
C1_FailedLoadOverwritesNothing ==
    [][\A p \in Slots : FetchFail(p) => ~procs[p].dirty]_vars

\* C2: in no state is a fetchData invocation suspended between its set calls
\* after it has changed the value of a cached piece, so no render sees the
\* staff list of one load next to the departments or courses of another.
C2_NoMixedSnapshot ==
    \A p \in Slots : procs[p].pc \in {"depts", "courses"} => ~procs[p].dirty

\* C3: the keys of allCourses are ids of the cached department list.
C3_CourseKeysAreDepartments ==
    DOMAIN allCourses \subseteq Ids(departments)

\* the effect on the Staff collection of the write of the submit of slot p
CreatedOne(p) ==
    \E id \in DOMAIN staffDocs' \ DOMAIN staffDocs :
        /\ DOMAIN staffDocs' = DOMAIN staffDocs \cup {id}
        /\ staffDocs'[id] = procs[p].form[1]
        /\ \A i \in DOMAIN staffDocs : staffDocs'[i] = staffDocs[i]
UpdatedOne(p) ==
    LET id == procs[p].sel[1].id
        form == procs[p].form[1]
    IN /\ DOMAIN staffDocs' = DOMAIN staffDocs
       /\ \A i \in DOMAIN staffDocs \ {id} : staffDocs'[i] = staffDocs[i]
       /\ \A f \in DOMAIN form : staffDocs'[id][f] = form[f]
SubmitWrites(p) ==
    SaveDone(p) => IF procs[p].sel = Null THEN CreatedOne(p) ELSE UpdatedOne(p)

\* C4 as stated: a successful create adds exactly one record under a new id
\* with the submitted values, a successful update changes only the target;
\* the list the following reload caches is one longer than the Staff list
\* was before the create, and as long as it was before the update.
C4_ReloadLengthAlways ==
    [][\A p \in Slots :
          /\ SubmitWrites(p)
          /\ (FetchStaffDone(p) /\ procs[p].cause.kind \in {"add", "update"})
                => Len(staff') = procs[p].cause.stored]_vars

\* C4 amended: the same effect on the store; the list the following reload
\* caches has one record more than the Staff collection had before the create
\* (as many as before the update) when no other write reached the store
\* before the reload's Staff read was evaluated.
C4_SubmitThenReload ==
    [][\A p \in Slots :
          /\ SubmitWrites(p)
          /\ SaveDone(p) =>
                /\ procs'[p].cause.stored =
                      Cardinality(DOMAIN staffDocs) + (IF procs[p].sel = Null THEN 1 ELSE 0)
                /\ procs'[p].cause.kind = IF procs[p].sel = Null THEN "add" ELSE "update"
          /\ (FetchStaffDone(p) /\ procs[p].cause.kind \in {"add", "update"}
                /\ ~procs[p].raced)
                => Len(staff') = procs[p].cause.stored]_vars

\* a reload after a create has cached the created record
C4_Witness ==
    \E p \in Slots :
        /\ procs[p].pc = "depts"
        /\ procs[p].cause.kind = "add"
        /\ ~procs[p].raced
        /\ Len(staff) = 2
        /\ \E i \in 1..Len(staff) : /\ staff[i].id = procs[p].cause.id
                                     /\ staff[i].firstName = TypedText.firstName

\* C5: when the store call of a submit succeeds, the handler shows one
\* success notification, 'updated' iff the write was an update and 'added' iff
\* it was a create, then resets formData and selectedStaff, then invokes
\* fetchData once.
C5_SubmitSuccessSequence ==
    [][\A p \in Slots : SaveDone(p) =>
          /\ Len(fx') = 3
          /\ NoticesOf(fx') = <<fx'[1]>>
          /\ fx'[1] = "success:updated" <=> DOMAIN staffDocs' = DOMAIN staffDocs
          /\ fx'[1] = "success:added" <=> DOMAIN staffDocs' # DOMAIN staffDocs
          /\ fx'[2] = "resetForm"
          /\ fx'[3] = "fetchData"
          /\ formData' = EmptyForm
          /\ selectedStaff' = Null
          /\ LoadsStarted = {p}]_vars

\* an update has succeeded after the user left the edit session
C5_Witness ==
    /\ fx = <<"success:updated", "resetForm", "fetchData">>
    /\ formData = EmptyForm
    /\ selectedStaff = Null

\* C6: when the store call of a submit fails, one error notification is
\* shown, formData, selectedStaff and the Staff collection are unchanged and
\* no fetchData is started.
C6_SubmitFailureKeepsForm ==
    [][\A p \in Slots : SaveFail(p) =>
          /\ NoticesOf(fx') = <<"error:save">>
          /\ formData' = formData
          /\ selectedStaff' = selectedStaff
          /\ staffDocs' = staffDocs
          /\ LoadsStarted = {}
          /\ CallsIssued = {}]_vars

\* an update of a document that is no longer in the store has failed
C6_Witness ==
    /\ fx = <<"error:save">>
    /\ selectedStaff # Null
    /\ selectedStaff[1].id \notin DOMAIN staffDocs
    /\ formData = selectedStaff[1]

C8_DeleteFailureKeepsList ==
    [][\A p \in Slots : DeleteFail(p) =>
          /\ NoticesOf(fx') = <<"error:delete">>
          /\ LoadsStarted = {}
          /\ CallsIssued = {}
          /\ staff' = staff
          /\ staffDocs' = staffDocs]_vars

\* the second delete of a row of a stale list has failed: the store is
\* empty and the cached list still shows the row
C8_Witness ==
    /\ fx = <<"error:delete">>
    /\ DOMAIN staffDocs = {}
    /\ 1 \in Ids(staff)

\* the records of R of which one of the five fields contains q, both taken
\* without regard to case
ContainsCI(s, q) ==
    \E off \in 0..Len(s) :
        /\ off + Len(q) <= Len(s)
        /\ \A j \in 1..Len(q) : LowerChar(s[off + j]) = LowerChar(q[j])
MatchesQuery(r, q) ==
    \/ ContainsCI(r.firstName, q)
    \/ ContainsCI(r.lastName, q)
    \/ ContainsCI(r.position, q)
    \/ ContainsCI(r.department, q)
    \/ ContainsCI(r.course, q)

\* C9: the displayed list is the subsequence of the cached staff list, in
\* its order, of the records that match the current query; all of it when the
\* query is empty; always computed from the current list and query.
C9_DisplayedListIsFilter ==
    /\ filteredStaff = SelectSeq(staff, LAMBDA r : MatchesQuery(r, searchQuery))
    /\ searchQuery = <<>> => filteredStaff = staff

\* a query that keeps one of two cached records and drops the other
C9_Witness ==
    /\ searchQuery # <<>>
    /\ Len(staff) = 2
    /\ Len(filteredStaff) = 1

\* C10: reset() empties every field of formData and nulls selectedStaff,
\* issues no store call, shows no notification and leaves the cached lists,
\* the query and the store as they are.
C10_ResetFrame ==
    [][ResetForm =>
          /\ DOMAIN formData' = FormFields
          /\ \A f \in FormFields : formData'[f] = <<>>
          /\ selectedStaff' = Null
          /\ CallsIssued = {}
          /\ NoticesOf(fx') = <<>>
          /\ procs' = procs
          /\ UNCHANGED <<staff, departments, allCourses, searchQuery,
                         filteredStaff, staffDocs, nextId, storeDepts>>]_vars

\* the user has reset the form while the update submitted from the edit
\* session is outstanding
C10_Witness ==
    /\ fx = <<"resetForm">>
    /\ formData = EmptyForm
    /\ selectedStaff = Null
    /\ staff # <<>>
    /\ \E p \in Slots : procs[p].pc = "save" /\ procs[p].sel # Null

\* the id of the document the resolved write of slot p is addressed to
WrittenId(p) == IF procs[p].sel = Null THEN nextId ELSE procs[p].sel[1].id

\* C11 as stated: a record written by a submit has the seven mandatory fields
\* non-empty, and an empty course only with an empty department.
C11_MandatoryAndCourse ==
    [][\A p \in Slots : SaveDone(p) =>
          LET doc == staffDocs'[WrittenId(p)]
          IN /\ \A f \in {"firstName", "lastName", "gender", "address",
                          "mobileNumber", "position", "department"} : doc[f] # <<>>
             /\ doc.course = <<>> => doc.department = <<>>]_vars

\* C11 amended: a record written by a submit has the seven mandatory fields
\* non-empty; its course may be empty whatever its department is.
C11_MandatoryFields ==
    [][\A p \in Slots : SaveDone(p) =>
          LET doc == staffDocs'[WrittenId(p)]
          IN \A f \in {"firstName", "lastName", "gender", "address",
                       "mobileNumber", "position", "department"} : doc[f] # <<>>]_vars

\* a submit has created a record with a department and no course
C11_Witness ==
    \E id \in DOMAIN staffDocs :
        /\ id # 1
        /\ staffDocs[id].department # <<>>
        /\ staffDocs[id].course = <<>>
        /\ staffDocs[id].firstName # <<>>

\* the identifiers of the courses cached for department d
CachedCourseIds(d) ==
    IF d \in DOMAIN allCourses
    THEN {allCourses[d][i].id : i \in 1..Len(allCourses[d])}
    ELSE {}

\* C12: the course of a record written by a successful submit is empty or is
\* one of the courses cached for the record's department (stated for the
\* submits whose department has its course list cached).
C12_CourseBelongsToDepartment ==
    [][\A p \in Slots : SaveDone(p) =>
          LET doc == staffDocs'[WrittenId(p)]
          IN doc.department \in DOMAIN allCourses =>
                \/ doc.course = <<>>
                \/ doc.course \in CachedCourseIds(doc.department)]_vars

\* the department selected in the form has no course in the cached mapping
NoCachedCourse ==
    \/ formData.department \notin DOMAIN allCourses
    \/ Len(allCourses[formData.department]) = 0

\* C13 as stated: while the selected department has no cached course, the
\* course select offers no course, is disabled, and the user cannot change
\* the form's course.
C13_NoOptionAndDisabled ==
    /\ [](NoCachedCourse => CourseOptions = {} /\ CourseDisabled)
    /\ [][\A v \in Typed("course") : HandleChange("course", v) => ~NoCachedCourse]_vars

\* C13 amended: while the selected department has no cached course, the course
\* select offers no course and the user cannot change the form's course; the
\* select is disabled exactly when no department is selected.
C13_NoOptionAndUnchangeable ==
    /\ [](NoCachedCourse => /\ CourseOptions = {}
                            /\ Choices("course") \subseteq {<<>>}
                            /\ CourseDisabled <=> formData.department = <<>>)
    /\ [][\A v \in Typed("course") : HandleChange("course", v) => ~NoCachedCourse]_vars

\* the form holds a department without courses, selected over a record's
\* course: the select is enabled and has only its placeholder
C13_Witness ==
    /\ formData.department = D2
    /\ D2 \in DOMAIN allCourses
    /\ NoCachedCourse
    /\ ~CourseDisabled
    /\ formData.course = Course1

\* the runs in which no read of a fetchData is rejected
NextNoReadError ==
    \/ \E p \in Slots : ServeRead(p)
    \/ \E p \in Slots : FetchStaffDone(p)
    \/ \E p \in Slots : FetchDeptsDone(p)
    \/ \E p \in Slots : FetchCoursesDone(p)
    \/ \E f \in FormFields : \E v \in Typed(f) : HandleChange(f, v)
    \/ \E i \in 1..Len(filteredStaff) : HandleEdit(filteredStaff[i])
    \/ ResetForm
    \/ \E q \in Queries : SetSearchQuery(q)
    \/ HandleSubmit
    \/ \E p \in Slots : SaveDone(p)
    \/ \E p \in Slots : SaveFail(p)
    \/ \E i \in 1..Len(filteredStaff) : HandleDelete(filteredStaff[i])
    \/ \E p \in Slots : ConfirmYes(p)
    \/ \E p \in Slots : ConfirmNo(p)
    \/ \E p \in Slots : DeleteDone(p)
    \/ \E p \in Slots : DeleteFail(p)
    \/ DepartmentsChange

SpecNoReadError == Init /\ [][NextNoReadError]_vars

\* C14: when no store call is outstanding (and no reload has failed at all),
\* the cached staff list holds exactly the records of the Staff collection.
C14_QuiescentCacheIsStore ==
    (\A p \in Slots : IsFree(p)) => Range(staff) = Range(StaffSnapshot)

\* a write of a submit or of a delete is outstanding
MutationOutstanding == \E p \in Slots : procs[p].pc \in {"save", "deleteDoc"}

\* C15: submits and deletes are not serialized.  While the write of an earlier
\* submit or delete is outstanding the user can still submit a valid form and
\* delete any displayed row (as long as the user can act at all), and every
\* create write that resolves adds one record of its own, holding the form it
\* was submitted with, whatever the collection already holds.
C15_NotSerialized ==
    /\ []((MutationOutstanding /\ UserCanAct /\ HasFreeSlot) =>
             /\ FormValid => ENABLED HandleSubmit
             /\ \A i \in 1..Len(filteredStaff) : ENABLED HandleDelete(filteredStaff[i]))
    /\ [][\A p \in Slots : (SaveDone(p) /\ procs[p].sel = Null) =>
             /\ nextId \notin DOMAIN staffDocs
             /\ DOMAIN staffDocs' = DOMAIN staffDocs \cup {nextId}
             /\ staffDocs'[nextId] = procs[p].form[1]
             /\ \A i \in DOMAIN staffDocs : staffDocs'[i] = staffDocs[i]]_vars

\* two create submits of one form were outstanding together and both have
\* resolved: the collection holds two new records with equal fields
C15_Witness ==
    \E a, b \in DOMAIN staffDocs :
        /\ a # 1 /\ b # 1 /\ a # b
        /\ staffDocs[a] = staffDocs[b]
        /\ \E p, q \in Slots :
              /\ p # q
              /\ procs[p].cause.kind = "add" /\ procs[p].cause.id = a
              /\ procs[q].cause.kind = "add" /\ procs[q].cause.id = b

\* C16: an Edit click on a displayed row, with or without an edit in
\* progress, makes the row the editing target and the form a copy of the row,
\* whatever the form held; it starts no store call, shows no notification and
\* changes neither the cached lists nor the store.  A submit made while the
\* row is the editing target issues one write addressed to the row's id, and
\* that write changes the document of that id and no other.
C16_StartEditThenSubmit ==
    /\ [][\A i \in 1..Len(filteredStaff) :
            HandleEdit(filteredStaff[i]) =>
               LET row == filteredStaff[i]
               IN /\ selectedStaff' = Some(row)
                  /\ DOMAIN formData' = DOMAIN row
                  /\ \A f \in DOMAIN row : formData'[f] = row[f]
                  /\ procs' = procs
                  /\ fx' = <<>>
                  /\ staff' = staff /\ departments' = departments
                  /\ allCourses' = allCourses
                  /\ staffDocs' = staffDocs /\ nextId' = nextId]_vars
    /\ [][(HandleSubmit /\ selectedStaff # Null) =>
            /\ procs'[FreeSlot].pc = "save"
            /\ procs'[FreeSlot].sel[1].id = selectedStaff[1].id
            /\ \A q \in Slots \ {FreeSlot} : procs'[q] = procs[q]]_vars
    /\ [][\A p \in Slots : (SaveDone(p) /\ procs[p].sel # Null) =>
            /\ DOMAIN staffDocs' = DOMAIN staffDocs
            /\ \A d \in DOMAIN staffDocs \ {procs[p].sel[1].id} :
                  staffDocs'[d] = staffDocs[d]]_vars

\* an Edit click made over unsaved values of an earlier edit, followed by a
\* submit: the write in flight carries the row's own values and its id
C16_Witness ==
    \E p \in Slots :
        /\ procs[p].pc = "save"
        /\ selectedStaff # Null
        /\ procs[p].sel = selectedStaff
        /\ procs[p].form = Some(selectedStaff[1])
        /\ nEvents >= 3

\* the positions at which an invocation waits for a store call
CallPcs == {"save", "deleteDoc"} \cup ReadPcs

\* the store call invocation p waits for completes, with success or failure
Complete(p) ==
    \/ ServeRead(p) \/ FetchStaffDone(p) \/ FetchDeptsDone(p)
    \/ FetchCoursesDone(p) \/ FetchFail(p)
    \/ SaveDone(p) \/ SaveFail(p)
    \/ DeleteDone(p) \/ DeleteFail(p)

\* every outstanding store call eventually completes
FairSpec == Spec /\ \A p \in Slots : WF_vars(Complete(p))

\* the last step was the failure path of a load, a submit or a delete
Failed == fx \in {<<"error:fetch">>, <<"error:save">>, <<"error:delete">>}

\* C17: when every outstanding store call eventually completes, every load,
\* submit and confirmed delete eventually has no store call of its own
\* outstanding; the step that ends the write of a submit or of a confirmed
\* delete shows exactly one notification, the success or the error one of that
\* mutation, and no other step shows one; the step in which a read of a load
\* fails shows exactly the load error and issues no further call; and right
\* after a failure the user, unless a confirm dialog is open, can reset,
\* search, submit a valid form, and edit or delete any displayed row.
C17_EveryOperationEnds ==
    /\ \A p \in Slots : []<>(procs[p].pc \notin CallPcs)
    /\ [][\A p \in Slots :
            /\ (procs[p].pc = "save" /\ procs'[p] # procs[p]) =>
                  /\ NoticesOf(fx') \in {<<"success:added">>, <<"success:updated">>,
                                         <<"error:save">>}
                  /\ procs'[p].pc \in {"staff", "free"}
            /\ (procs[p].pc = "deleteDoc" /\ procs'[p] # procs[p]) =>
                  /\ NoticesOf(fx') \in {<<"success:deleted">>, <<"error:delete">>}
                  /\ procs'[p].pc \in {"staff", "free"}
            /\ FetchFail(p) =>
                  /\ fx' = <<"error:fetch">>
                  /\ CallsIssued = {}
                  /\ IsFree(p)']_vars
    /\ [][(\A p \in Slots : procs[p].pc \in {"save", "deleteDoc"} => procs'[p] = procs[p])
             => \A i \in 1..Len(NoticesOf(fx')) : NoticesOf(fx')[i] = "error:fetch"]_vars
    /\ []((Failed /\ UserCanAct) =>
             /\ ENABLED ResetForm
             /\ \A q \in Queries \ {searchQuery} : ENABLED SetSearchQuery(q)
             /\ FormValid => ENABLED HandleSubmit
             /\ \A i \in 1..Len(filteredStaff) :
                   /\ ENABLED HandleEdit(filteredStaff[i])
                   /\ ENABLED HandleDelete(filteredStaff[i]))

\* a reload started by a successful mutation has failed, every invocation has
\* ended and rows are displayed for the user to act on
C17_Witness ==
    /\ fx = <<"error:fetch">>
    /\ \A p \in Slots : IsFree(p)
    /\ Cardinality(DOMAIN staffDocs) # 1
    /\ filteredStaff # <<>>

\* C18: every Staff document that carries an id field of its own has it equal
\* to its document id; the records a Staff read yields carry, in document
\* order, the ids of the documents they are made from, and setStaff caches
\* them as read; and the delete and the update started from a displayed row
\* are addressed to the id the row carries.
C18_RecordIdIsDocumentId ==
    /\ [](\A d \in DOMAIN staffDocs :
             "id" \in DOMAIN staffDocs[d] => staffDocs[d].id = d)
    /\ [][\A p \in Slots :
            /\ ServeRead(p) =>
                  LET ids == SortedSeq(DOMAIN staffDocs)
                      recs == procs'[p].resp[1]
                  IN /\ Len(recs) = Len(ids)
                     /\ \A i \in 1..Len(ids) : recs[i].id = ids[i]
            /\ FetchStaffDone(p) => staff' = procs[p].resp[1]]_vars
    /\ [][\A i \in 1..Len(filteredStaff) :
            LET row == filteredStaff[i]
            IN /\ HandleDelete(row) => procs'[FreeSlot].target[1].id = row.id
               /\ HandleEdit(row) => /\ selectedStaff'[1].id = row.id
                                     /\ formData'.id = row.id]_vars
    /\ [][\A p \in Slots :
            /\ DeleteDone(p) =>
                  DOMAIN staffDocs' = DOMAIN staffDocs \ {procs[p].target[1].id}
            /\ (SaveDone(p) /\ procs[p].sel # Null) =>
                  /\ procs[p].sel[1].id \in DOMAIN staffDocs
                  /\ staffDocs'[procs[p].sel[1].id].id = procs[p].sel[1].id]_vars

\* an update has written the form of an edit, id included, and the reload has
\* cached the record of that document
C18_Witness ==
    \E d \in DOMAIN staffDocs :
        /\ "id" \in DOMAIN staffDocs[d]
        /\ \E i \in 1..Len(staff) : staff[i] = staffDocs[d]

\* the user has changed the form or the editing target since the submit of
\* invocation p was dispatched
ChangedSinceSubmit(p) ==
    \/ formData # procs[p].form[1]
    \/ selectedStaff # procs[p].sel

\* C19 as stated: when the write of a submit succeeds after the user has
\* changed the form or the editing target, the later form values and the later
\* editing target are still in place.
C19_ResetKeepsLaterSession ==
    [][\A p \in Slots : (SaveDone(p) /\ ChangedSinceSubmit(p)) =>
          /\ formData' = formData
          /\ selectedStaff' = selectedStaff]_vars

\* C19 amended: when the write of a submit succeeds after the user has changed
\* the form or the editing target, the reset still empties the form and clears
\* the editing target: the later values are lost.
C19_ResetClearsLaterSession ==
    [][\A p \in Slots : (SaveDone(p) /\ ChangedSinceSubmit(p)) =>
          /\ \A f \in FormFields : formData'[f] = <<>>
          /\ "id" \notin DOMAIN formData'
          /\ selectedStaff' = Null]_vars

\* a submit of a new record is outstanding, its write can succeed, and the
\* user has since started to edit a displayed row
C19_Witness ==
    \E p \in Slots :
        /\ procs[p].pc = "save"
        /\ procs[p].sel = Null
        /\ selectedStaff # Null
        /\ formData = selectedStaff[1]

\* C20: whenever a record is the editing target and no store call is
\* outstanding, the cached staff list holds a record with the target's id.
C20_EditingTargetIsCached ==
    (selectedStaff # Null /\ \A p \in Slots : procs[p].pc \notin CallPcs)
        => selectedStaff[1].id \in Ids(staff)

====
